---- MODULE Spec2Model ----
(***************************************************************************)
(* A model of the SecAuto automation execution bridge:                     *)
(*   server/SoarBaseAPI.py      context protocol, search, config resolver  *)
(*   user/sitecustomize.py      capability shim and hot-reload supervisor  *)
(*   automations/*.py           the automations that emit envelopes        *)
(*   integrations/*.py          the integrations the automations call      *)
(* Each component has its own specification (SpecConfig, SpecLoad,         *)
(* SpecShim, SpecAutomations); the variables of the other components    *)
(* stay at their initial values.                                           *)
(***************************************************************************)
EXTENDS Integers, Sequences, FiniteSets, TLC

VARIABLES
    files,        \* config resolver: content of the candidate config files, in list order
    httpLog,      \* every HTTP request issued so far, in order
    secautoOut,   \* what the last get_secauto_config() call returned
    cfgOut,       \* how the last get_integration_config() call ended
    stdin,        \* context protocol: the process's standard input
    loaded,       \* how the last load_context() call ended
    disk,         \* shim: the backing module file SoarBaseAPI.py
    sysModules,   \* the version of SoarBaseAPI in sys.modules, or NoModule
    builtins,     \* what each ambient name is bound to
    context,      \* the value of builtins.context
    contextLoads, \* how many times the initial context was computed
    last_modified_time,  \* the shim's global of that name, or NotRecorded
    activated,    \* whether the shim's module body has run
    shimExc,      \* the exception that left the shim's module body, or ""
    syncDisk,     \* the file as it was at the initial binding or the last check_and_reload()
    checkReloads, \* how many times check_and_reload() has called reload_soar_api()
    automation,   \* automations: the script this process runs
    stdout,       \* the documents written to standard output, in order
    exitExc,      \* the exception that ended the script, or ""
    done,         \* whether the script has run
    scan,         \* the URL scanner's locals while its scan loop runs
    cacheLog,     \* every value stored in a Redis server so far, in order
    searchIn,     \* context functions: the arguments of the call
    searchOut,    \* how the call ended, and the document after it
    redisInst,    \* cache integration: the attributes of the RedisIntegration instance
    redisLib,     \* whether `import redis` succeeded in redis_integration.py
    redisStore,   \* what each Redis server holds under each key
    redisOut,     \* the last cache call: its arguments and what it returned
    pluginProc    \* plugins: the arguments, output channels and exit status of a plugin process

cfgVars == <<files, httpLog, secautoOut, cfgOut>>
loadVars == <<stdin, loaded>>
shimVars == <<disk, sysModules, builtins, context, contextLoads, last_modified_time,
              activated, shimExc, syncDisk, checkReloads>>

autoVars == <<automation, stdout, exitExc, done, scan, cacheLog>>

searchVars == <<searchIn, searchOut>>

redisVars == <<redisInst, redisLib, redisStore, redisOut>>

vars == <<cfgVars, loadVars, shimVars, autoVars, searchVars, redisVars, pluginProc>>

\* What each component's actions leave alone.
notCfgVars == <<loadVars, shimVars, autoVars, searchVars, redisVars, pluginProc>>
notLoadVars == <<cfgVars, shimVars, autoVars, searchVars, redisVars, pluginProc>>
notShimVars == <<cfgVars, loadVars, autoVars, searchVars, redisVars, pluginProc>>
notAutoVars == <<loadVars, disk, sysModules, builtins, contextLoads, last_modified_time,
                 activated, shimExc, syncDisk, checkReloads, searchVars, redisVars, pluginProc>>
notSearchVars == <<cfgVars, loadVars, shimVars, autoVars, redisVars, pluginProc>>
notRedisVars == <<files, secautoOut, cfgOut, loadVars, shimVars, autoVars, searchVars, pluginProc>>
notPluginVars == <<cfgVars, loadVars, shimVars, autoVars, searchVars, redisVars>>

\* Python's None, and the marker of a call that has not been made yet.
NoneV == "<None>"
Idle == "<idle>"

NoScan ==
    [active |-> FALSE, nurls |-> 0, valid |-> <<>>, invalid |-> <<>>, i |-> 0,
     api_key |-> NoneV,
     acc |-> [results |-> <<>>, malicious |-> 0, clean |-> 0, failed |-> 0,
              requests |-> <<>>]]

\* No plugin process has been started.
Argv(argc, command, params) == [argc |-> argc, command |-> command, params |-> params]
NoPlugin ==
    [plugin |-> "none", argv |-> Argv(0, "", <<>>), stdout |-> <<>>, stderr |-> <<>>,
     exited |-> FALSE, status |-> 0]
PluginIdle == pluginProc = NoPlugin

\* No RedisIntegration has been constructed; the servers hold nothing.
CacheHosts == {"localhost", "cachehost"}
CacheKeys == {"a"}
CacheValues == {"", "v"}

NoInstance ==
    [constructed |-> FALSE, resolved |-> Idle, redis_host |-> NoneV, redis_port |-> NoneV,
     redis_password |-> NoneV]
NoCacheCall ==
    [op |-> Idle, key |-> "", arg |-> NoneV, success |-> FALSE, value |-> NoneV,
     error |-> "", host |-> NoneV]

RedisIdle ==
    /\ redisInst = NoInstance
    /\ redisLib = TRUE
    /\ redisStore = [h \in CacheHosts |-> [k \in CacheKeys |-> NoneV]]
    /\ redisOut = NoCacheCall

\* No automation has run.
AutoIdle ==
    /\ automation = "none"
    /\ stdout = <<>>
    /\ exitExc = ""
    /\ done = FALSE
    /\ scan = NoScan
    /\ cacheLog = <<>>

\* Python truthiness of a string-or-None value (`if url and api_key`, `if not x`).
Truthy(v) == v # NoneV /\ v # ""

(***************************************************************************)
(* Integration Config Resolver (server/SoarBaseAPI.py)                     *)
(***************************************************************************)

\* config_paths has three entries.
NumConfigPaths == 3

DefaultUrl == "http://localhost:8080"

\* What one candidate path can hold: nothing, text that is not JSON, a JSON
\* document that is not an object, or an object whose two fields are each
\* absent (None from .get), empty or set.
ObjectFile(u, k) == [kind |-> "object", secauto_url |-> u, secauto_api_key |-> k]
NoFile == [kind |-> "missing", secauto_url |-> NoneV, secauto_api_key |-> NoneV]
FileStates ==
    { [kind |-> k, secauto_url |-> NoneV, secauto_api_key |-> NoneV] :
        k \in {"missing", "malformed", "nonobject"} }
    \cup { ObjectFile("uA", "kA"), ObjectFile("uB", "kB"),
           ObjectFile("", "kA"), ObjectFile(NoneV, "kB"),
           ObjectFile("uA", ""), ObjectFile("uB", NoneV) }

\* One iteration of the loop body: TRUE when the candidate returns a pair.
\* os.path.exists false skips the file; json.load raising (malformed) and
\* config.get raising AttributeError (not an object) are caught by the
\* per-candidate except and the loop continues.
CandidateReturns(f) ==
    /\ f.kind # "missing"
    /\ f.kind # "malformed"
    /\ f.kind # "nonobject"
    /\ Truthy(f.secauto_url) /\ Truthy(f.secauto_api_key)

RECURSIVE ScanCandidates(_, _)
ScanCandidates(fs, i) ==
    IF i > Len(fs) THEN <<DefaultUrl, NoneV>>
    ELSE IF CandidateReturns(fs[i])
         THEN <<fs[i].secauto_url, fs[i].secauto_api_key>>
         ELSE ScanCandidates(fs, i + 1)

\* A resolver whose try block encloses the whole loop: the first candidate that
\* cannot be read ends the search.
RECURSIVE ScanCandidatesOneTry(_, _)
ScanCandidatesOneTry(fs, i) ==
    IF i > Len(fs) THEN <<DefaultUrl, NoneV>>
    ELSE IF fs[i].kind \in {"malformed", "nonobject"} THEN <<DefaultUrl, NoneV>>
    ELSE IF CandidateReturns(fs[i])
         THEN <<fs[i].secauto_url, fs[i].secauto_api_key>>
         ELSE ScanCandidatesOneTry(fs, i + 1)

get_secauto_config_one_try(fs) == ScanCandidatesOneTry(fs, 1)

get_secauto_config(fs) == ScanCandidates(fs, 1)

\* The integration payload of a response, and the return value of
\* get_integration_config: absent (None), the empty mapping, or settings.
AbsentPayload == [state |-> "absent", apikey |-> NoneV, host |-> NoneV]
EmptyPayload == [state |-> "empty", apikey |-> NoneV, host |-> NoneV]
SettingsPayloads ==
    { [state |-> "nonempty", apikey |-> "vtkey", host |-> NoneV],
      [state |-> "nonempty", apikey |-> NoneV, host |-> "cachehost"] }
Payloads == {AbsentPayload, EmptyPayload} \cup SettingsPayloads

IntegrationNames == {"virustotal", "redis"}

\* What the remote endpoint can answer to one GET.
NetFailure(n) ==
    [net |-> n, status |-> 0, body |-> "none", success |-> "absent",
     integration |-> AbsentPayload]
Responses ==
    { NetFailure(n) : n \in {"connection_error", "timeout"} }
    \cup { [net |-> "ok", status |-> s, body |-> b, success |-> "absent",
            integration |-> AbsentPayload] :
            s \in {200, 404}, b \in {"notjson", "nonobject"} }
    \cup [net : {"ok"}, status : {200, 404}, body : {"object"},
          success : {"absent", "true", "false"}, integration : Payloads]

Request(url, key, name) == [url |-> url, key |-> key, name |-> name]

Returned(p, reqs) == [exc |-> "", ret |-> p, requests |-> reqs]
Raised(e, reqs) == [exc |-> e, ret |-> AbsentPayload, requests |-> reqs]

\* A resolver that tests the address instead of the credential before the
\* request.
get_integration_config_url_guard(fs, name, resp, legacy) ==
    LET pair == ScanCandidates(fs, 1)
        req == <<Request(pair[1], pair[2], name)>>
    IN  IF ~Truthy(pair[1]) THEN Returned(AbsentPayload, <<>>)
        ELSE IF resp.net = "ok" /\ resp.status = 200 /\ resp.body = "object"
                /\ resp.success = "true" /\ resp.integration.state = "nonempty"
             THEN Returned(resp.integration, req)
        ELSE Returned(AbsentPayload, req)

\* get_integration_config(name) with the files as they are, the endpoint
\* answering `resp`; `legacy` is whether the installed requests library raises
\* a plain ValueError for a body that is not JSON (before 2.27) instead of a
\* RequestException subclass.
get_integration_config(fs, name, resp, legacy) ==
    LET pair == get_secauto_config(fs)
        req == <<Request(pair[1], pair[2], name)>>
    IN  IF ~Truthy(pair[2]) THEN Returned(AbsentPayload, <<>>)
        ELSE IF resp.net # "ok" THEN Returned(AbsentPayload, req)
        ELSE IF resp.status # 200 THEN Returned(AbsentPayload, req)
        ELSE IF resp.body = "notjson"
             THEN IF legacy THEN Raised("JSONDecodeError", req)
                  ELSE Returned(AbsentPayload, req)
        ELSE IF resp.body = "nonobject" THEN Raised("AttributeError", req)
        ELSE IF resp.success = "true" /\ resp.integration.state = "nonempty"
             THEN Returned(resp.integration, req)
        ELSE Returned(AbsentPayload, req)

CfgIdle ==
    /\ httpLog = <<>>
    /\ secautoOut = <<Idle, Idle>>
    /\ cfgOut = [exc |-> Idle, ret |-> AbsentPayload, requests |-> <<>>,
                 name |-> Idle, resp |-> NetFailure("none")]

CfgInit ==
    /\ files \in [1..NumConfigPaths -> FileStates]
    /\ CfgIdle

CallGetSecautoConfig ==
    /\ secautoOut = <<Idle, Idle>>
    /\ secautoOut' = get_secauto_config(files)
    /\ UNCHANGED <<files, httpLog, cfgOut, notCfgVars>>

CallGetIntegrationConfig ==
    /\ cfgOut.exc = Idle
    /\ \E name \in IntegrationNames, resp \in Responses, legacy \in BOOLEAN :
        LET out == get_integration_config(files, name, resp, legacy)
        IN  /\ cfgOut' = [exc |-> out.exc, ret |-> out.ret, requests |-> out.requests,
                          name |-> name, resp |-> resp]
            /\ httpLog' = httpLog \o out.requests
    /\ UNCHANGED <<files, secautoOut, notCfgVars>>

\* The candidates that exist, hold a JSON object and have both fields non-empty.
Qualifying(fs) ==
    { i \in 1..Len(fs) :
        /\ fs[i].kind = "object"
        /\ fs[i].secauto_url \notin {NoneV, ""}
        /\ fs[i].secauto_api_key \notin {NoneV, ""} }

FirstQualifying(fs) == CHOOSE i \in Qualifying(fs) : \A j \in Qualifying(fs) : i <= j

C7_NoCredentialNoRequest ==
    (cfgOut.exc # Idle /\ ~Truthy(get_secauto_config(files)[2])) =>
        /\ cfgOut.exc = ""
        /\ cfgOut.ret = AbsentPayload
        /\ cfgOut.requests = <<>>
        /\ httpLog = <<>>

\* C7 witness: a call that ended with no qualifying candidate although a
\* candidate file exists, the endpoint being ready to answer with settings.
C7_Witness ==
    /\ cfgOut.exc = ""
    /\ Qualifying(files) = {}
    /\ files[1] = ObjectFile("uA", "")
    /\ cfgOut.resp.net = "ok" /\ cfgOut.resp.status = 200
    /\ cfgOut.resp.success = "true" /\ cfgOut.resp.integration.state = "nonempty"
    /\ httpLog = <<>>

\* C9: with a credential, get_integration_config returns the integration
\* payload exactly when the response has status 200, a true success flag and
\* a non-empty payload; every other outcome (network failure, timeout,
\* non-200 status, a body that is not JSON, a JSON body that is not an
\* object, success false, payload missing) gives the absent result, and no
\* exception reaches the caller.
C9_AbsentOnEveryFailure ==
    (cfgOut.exc # Idle /\ Truthy(get_secauto_config(files)[2])) =>
        /\ cfgOut.exc = ""
        /\ IF /\ cfgOut.resp.net = "ok" /\ cfgOut.resp.status = 200
              /\ cfgOut.resp.body = "object" /\ cfgOut.resp.success = "true"
              /\ cfgOut.resp.integration.state = "nonempty"
           THEN cfgOut.ret = cfgOut.resp.integration
           ELSE cfgOut.ret = AbsentPayload

CfgNext == CallGetSecautoConfig \/ CallGetIntegrationConfig

(***************************************************************************)
(* JSON documents and their text                                           *)
(***************************************************************************)

\* A Python value read from or written as JSON: t is its type, a its text when
\* it is a string or a boolean, n its value when it is a number, c its members
\* (mapping: [k, v] pairs in insertion order) or its elements (sequence).
PyNone == [t |-> "None", a |-> "", n |-> 0, c |-> <<>>]
JNum(x) == [t |-> "num", a |-> "", n |-> x, c |-> <<>>]
JStr(x) == [t |-> "str", a |-> x, n |-> 0, c |-> <<>>]
JBool(b) == [t |-> "bool", a |-> IF b THEN "true" ELSE "false", n |-> 0, c |-> <<>>]
JArr(elems) == [t |-> "arr", a |-> "", n |-> 0, c |-> elems]
JObj(members) == [t |-> "obj", a |-> "", n |-> 0, c |-> members]
Member(k, v) == [k |-> k, v |-> v]
EmptyObj == JObj(<<>>)

IsMapping(d) == d.t = "obj"
Keys(d) == { d.c[i].k : i \in 1..Len(d.c) }
HasKey(d, k) == IsMapping(d) /\ k \in Keys(d)
Get(d, k) == d.c[CHOOSE i \in 1..Len(d.c) : d.c[i].k = k].v

\* dict[k] = v: the last writer wins and a key keeps its first position.
SetKey(members, k, v) ==
    IF \E i \in 1..Len(members) : members[i].k = k
    THEN [i \in 1..Len(members) |->
            IF members[i].k = k THEN Member(k, v) ELSE members[i]]
    ELSE Append(members, Member(k, v))

\* The text of standard input, as JSON tokens: the punctuation, the string
\* literal "k" and the number 1.
JsonTokens == {"{", "}", "[", "]", ":", ",", "\"k\"", "1"}

Tok(toks, i) == IF i <= Len(toks) THEN toks[i] ELSE "<eof>"
ParseFail == [ok |-> FALSE, v |-> PyNone, n |-> 0]
Parsed(v, n) == [ok |-> TRUE, v |-> v, n |-> n]

\* json's decoder: one value starting at token i; n is the token after it.
RECURSIVE ParseValue(_, _)
RECURSIVE ParseElements(_, _, _)
RECURSIVE ParseMembers(_, _, _)
ParseValue(toks, i) ==
    LET t == Tok(toks, i)
    IN  CASE t = "1" -> Parsed(JNum(1), i + 1)
          [] t = "\"k\"" -> Parsed(JStr("k"), i + 1)
          [] t = "[" -> IF Tok(toks, i + 1) = "]" THEN Parsed(JArr(<<>>), i + 2)
                        ELSE ParseElements(toks, i + 1, <<>>)
          [] t = "{" -> IF Tok(toks, i + 1) = "}" THEN Parsed(EmptyObj, i + 2)
                        ELSE ParseMembers(toks, i + 1, <<>>)
          [] OTHER -> ParseFail

ParseElements(toks, i, acc) ==
    LET r == ParseValue(toks, i)
    IN  IF ~r.ok THEN ParseFail
        ELSE IF Tok(toks, r.n) = "," THEN ParseElements(toks, r.n + 1, Append(acc, r.v))
        ELSE IF Tok(toks, r.n) = "]" THEN Parsed(JArr(Append(acc, r.v)), r.n + 1)
        ELSE ParseFail

ParseMembers(toks, i, acc) ==
    IF Tok(toks, i) # "\"k\"" \/ Tok(toks, i + 1) # ":" THEN ParseFail
    ELSE LET r == ParseValue(toks, i + 2)
         IN  IF ~r.ok THEN ParseFail
             ELSE IF Tok(toks, r.n) = ","
                  THEN ParseMembers(toks, r.n + 1, SetKey(acc, "k", r.v))
             ELSE IF Tok(toks, r.n) = "}"
                  THEN Parsed(JObj(SetKey(acc, "k", r.v)), r.n + 1)
             ELSE ParseFail

\* json.load(text): the whole text must be exactly one value.
json_load(toks) ==
    LET r == ParseValue(toks, 1)
    IN  IF r.ok /\ r.n = Len(toks) + 1 THEN r ELSE ParseFail

\* json.dumps(v), as tokens: members and elements in order, comma-separated.
RECURSIVE json_dump(_)
RECURSIVE DumpItems(_, _, _)
json_dump(v) ==
    CASE v.t = "obj" -> <<"{">> \o DumpItems(v.c, 1, TRUE) \o <<"}">>
      [] v.t = "arr" -> <<"[">> \o DumpItems(v.c, 1, FALSE) \o <<"]">>
      [] v.t = "str" -> <<"\"" \o v.a \o "\"">>
      [] v.t = "None" -> <<"null">>
      [] v.t = "num" -> <<ToString(v.n)>>
      [] OTHER -> <<v.a>>

DumpItems(items, i, members) ==
    IF i > Len(items) THEN <<>>
    ELSE (IF i > 1 THEN <<",">> ELSE <<>>)
         \o (IF members THEN <<"\"" \o items[i].k \o "\"", ":">> \o json_dump(items[i].v)
             ELSE json_dump(items[i]))
         \o DumpItems(items, i + 1, members)

(***************************************************************************)
(* Context search and update (server/SoarBaseAPI.py)                       *)
(***************************************************************************)

\* The values of a mapping, in insertion order.
Values(d) == [i \in 1..Len(d.c) |-> d.c[i].v]

\* search_context(json_obj, key): a mapping that has the key answers with its
\* value; otherwise the values (or the elements of a sequence) are searched in
\* order and the first result that is not None is returned.
RECURSIVE search_context(_, _)
RECURSIVE SearchEach(_, _, _)
search_context(json_obj, key) ==
    IF json_obj.t = "obj"
    THEN IF HasKey(json_obj, key) THEN Get(json_obj, key)
         ELSE SearchEach(Values(json_obj), 1, key)
    ELSE IF json_obj.t = "arr" THEN SearchEach(json_obj.c, 1, key)
    ELSE PyNone

SearchEach(items, i, key) ==
    IF i > Len(items) THEN PyNone
    ELSE LET result == search_context(items[i], key)
         IN  IF result # PyNone THEN result ELSE SearchEach(items, i + 1, key)

IsContainer(v) == v.t \in {"obj", "arr"}

\* The while loop of search_context_iterative: the stack is popped from its
\* end; the containers among a mapping's values or a sequence's elements are
\* pushed in order.
RECURSIVE IterativeLoop(_, _)
IterativeLoop(stack, key) ==
    IF stack = <<>> THEN PyNone
    ELSE LET current == stack[Len(stack)]
             rest == SubSeq(stack, 1, Len(stack) - 1)
         IN  IF current.t = "obj"
             THEN IF HasKey(current, key) THEN Get(current, key)
                  ELSE IterativeLoop(rest \o SelectSeq(Values(current), IsContainer), key)
             ELSE IF current.t = "arr"
             THEN IterativeLoop(rest \o SelectSeq(current.c, IsContainer), key)
             ELSE IterativeLoop(rest, key)

search_context_iterative(json_obj, key) == IterativeLoop(<<json_obj>>, key)

\* key_path.split('.'), on the characters of the path: cur is the segment
\* read so far.
RECURSIVE Split(_, _, _)
Split(chars, i, cur) ==
    IF i > Len(chars) THEN <<cur>>
    ELSE IF chars[i] = "." THEN <<cur>> \o Split(chars, i + 1, "")
    ELSE Split(chars, i + 1, cur \o chars[i])

\* The for loop of search_context_path over keys[i..].
RECURSIVE PathLoop(_, _, _)
PathLoop(current_data, keys, i) ==
    IF i > Len(keys) THEN current_data
    ELSE IF IsMapping(current_data) /\ HasKey(current_data, keys[i])
    THEN PathLoop(Get(current_data, keys[i]), keys, i + 1)
    ELSE PyNone

\* A walk that keeps the value reached when a segment cannot be followed.
RECURSIVE PathLoopKeepsPrefix(_, _, _)
PathLoopKeepsPrefix(current_data, keys, i) ==
    IF i > Len(keys) THEN current_data
    ELSE IF IsMapping(current_data) /\ HasKey(current_data, keys[i])
    THEN PathLoopKeepsPrefix(Get(current_data, keys[i]), keys, i + 1)
    ELSE current_data

search_context_path_keeps_prefix(json_obj, key_path) ==
    PathLoopKeepsPrefix(json_obj, Split(key_path, 1, ""), 1)

search_context_path(json_obj, key_path) == PathLoop(json_obj, Split(key_path, 1, ""), 1)

\* dict.update(data) for a mapping `data`: its items are assigned in order.
RECURSIVE DictUpdate(_, _, _)
DictUpdate(members, data, i) ==
    IF i > Len(data) THEN members
    ELSE DictUpdate(SetKey(members, data[i].k, data[i].v), data, i + 1)

\* An update that keeps the value of a key the context already has.
update_context_keeps_existing(ctx, data) ==
    IF ~IsMapping(ctx) THEN [exc |-> "", ret |-> PyNone, ctx |-> ctx]
    ELSE IF ~IsMapping(data) THEN [exc |-> "TypeError", ret |-> PyNone, ctx |-> ctx]
    ELSE LET fresh == SelectSeq(data.c, LAMBDA m : ~HasKey(ctx, m.k))
             r == JObj(DictUpdate(ctx.c, fresh, 1))
         IN  [exc |-> "", ret |-> r, ctx |-> r]

\* update_context(context, data): the mapping is updated in place and
\* returned; anything else gives None. dict.update raises TypeError for a
\* `data` that is None or a number.
update_context(ctx, data) ==
    IF ~IsMapping(ctx) THEN [exc |-> "", ret |-> PyNone, ctx |-> ctx]
    ELSE IF ~IsMapping(data) THEN [exc |-> "TypeError", ret |-> PyNone, ctx |-> ctx]
    ELSE LET r == JObj(DictUpdate(ctx.c, data.c, 1))
         IN  [exc |-> "", ret |-> r, ctx |-> r]

\* The keys of the sample documents, and the characters of a key path.
SearchKeys == {"k", "x"}
PathChars == SearchKeys \cup {"."}

\* The longest sequence in a sample document and the longest key path.
MaxElems == 2
MaxPathLen == 3

Leaves == {JNum(1), PyNone}

\* The mappings over SearchKeys (both insertion orders) and the sequences with
\* values from S.
MappingsOver(S) ==
    {EmptyObj}
    \cup { JObj(<<Member(a, v)>>) : a \in SearchKeys, v \in S }
    \cup { JObj(<<Member(p[1], v), Member(p[2], w)>>) :
            p \in {<<"k", "x">>, <<"x", "k">>}, v \in S, w \in S }
SequencesOver(S) == { JArr(l) : l \in UNION { [1..n -> S] : n \in 0..MaxElems } }

FlatDocuments == Leaves \cup MappingsOver(Leaves) \cup SequencesOver(Leaves)
\* The documents a path is walked through: a value that is not a mapping ends
\* the walk whatever it holds.
PathDocuments == FlatDocuments \cup MappingsOver(FlatDocuments)
Documents == PathDocuments \cup SequencesOver(MappingsOver(Leaves))

KeyPaths == UNION { [1..n -> PathChars] : n \in 0..MaxPathLen }

\* What update_context is given as `data`: a mapping, None or a number.
Patches ==
    MappingsOver(Leaves \cup {JObj(<<Member("x", JNum(1))>>)}) \cup {PyNone, JNum(1)}

SearchInput(kind, doc, key, path, data) ==
    [kind |-> kind, doc |-> doc, key |-> key, path |-> path, data |-> data]

NoSearch == [op |-> Idle, exc |-> "", ret |-> PyNone, doc |-> PyNone]

SearchIdle ==
    /\ searchIn = SearchInput("none", PyNone, "", <<>>, PyNone)
    /\ searchOut = NoSearch

CallSearchContext ==
    /\ searchOut = NoSearch
    /\ \E d \in Documents, k \in SearchKeys :
        /\ searchIn' = SearchInput("key", d, k, <<>>, PyNone)
        /\ searchOut' = [op |-> "search_context", exc |-> "",
                         ret |-> search_context(d, k), doc |-> d]
    /\ UNCHANGED notSearchVars

CallSearchContextIterative ==
    /\ searchOut = NoSearch
    /\ \E d \in Documents, k \in SearchKeys :
        /\ searchIn' = SearchInput("key", d, k, <<>>, PyNone)
        /\ searchOut' = [op |-> "search_context_iterative", exc |-> "",
                         ret |-> search_context_iterative(d, k), doc |-> d]
    /\ UNCHANGED notSearchVars

CallSearchContextPath ==
    /\ searchOut = NoSearch
    /\ \E d \in PathDocuments, q \in KeyPaths :
        /\ searchIn' = SearchInput("path", d, "", q, PyNone)
        /\ searchOut' = [op |-> "search_context_path", exc |-> "",
                         ret |-> search_context_path(d, q), doc |-> d]
    /\ UNCHANGED notSearchVars

\* update_context changes its argument in place: doc is the context after
\* the call.
CallUpdateContext ==
    /\ searchOut = NoSearch
    /\ \E d \in Documents, u \in Patches :
        LET r == update_context(d, u)
        IN  /\ searchIn' = SearchInput("update", d, "", <<>>, u)
            /\ searchOut' = [op |-> "update_context", exc |-> r.exc, ret |-> r.ret,
                             doc |-> r.ctx]
    /\ UNCHANGED notSearchVars

SearchNext ==
    \/ CallSearchContext \/ CallSearchContextIterative
    \/ CallSearchContextPath \/ CallUpdateContext

\* The mappings of a document in depth-first pre-order: a mapping before the
\* mappings inside its values, values in insertion order, elements in order.
RECURSIVE MappingsPreOrder(_)
RECURSIVE MappingsOfEach(_, _)
MappingsPreOrder(v) ==
    IF v.t = "obj" THEN <<v>> \o MappingsOfEach(Values(v), 1)
    ELSE IF v.t = "arr" THEN MappingsOfEach(v.c, 1)
    ELSE <<>>
MappingsOfEach(items, i) ==
    IF i > Len(items) THEN <<>>
    ELSE MappingsPreOrder(items[i]) \o MappingsOfEach(items, i + 1)

\* The mappings of a document that contain the key, in pre-order.
Binding(doc, key) == SelectSeq(MappingsPreOrder(doc), LAMBDA m : HasKey(m, key))

\* C13: search_context returns the value bound to the key in the first mapping,
\* in depth-first pre-order, that contains the key, and returns the absent
\* sentinel only when no mapping of the document contains the key, documents
\* with an occurrence of the key bound to null included.
C13_FirstMatchInPreOrder ==
    searchOut.op = "search_context" =>
        LET b == Binding(searchIn.doc, searchIn.key)
        IN  /\ searchOut.ret = IF b = <<>> THEN PyNone ELSE Get(b[1], searchIn.key)
            /\ searchOut.ret = PyNone => b = <<>>

\* C14: search_context_iterative and search_context return the absent sentinel
\* on exactly the same inputs, and return the same value on every document in
\* which the key is bound in exactly one mapping.
C14_IterativeEquivalent ==
    searchOut.op = "search_context_iterative" =>
        LET r == search_context(searchIn.doc, searchIn.key)
        IN  /\ (searchOut.ret = PyNone) <=> (r = PyNone)
            /\ Len(Binding(searchIn.doc, searchIn.key)) = 1 => searchOut.ret = r

\* The value reached after the first j segments of a path, when every one of
\* them could be followed through a mapping.
RECURSIVE Reached(_, _, _)
Reached(doc, segs, j) ==
    IF j = 0 THEN [ok |-> TRUE, v |-> doc]
    ELSE LET before == Reached(doc, segs, j - 1)
         IN  IF before.ok /\ IsMapping(before.v) /\ segs[j] \in Keys(before.v)
             THEN [ok |-> TRUE, v |-> Get(before.v, segs[j])]
             ELSE [ok |-> FALSE, v |-> PyNone]

\* The same document with the members of every mapping in reverse insertion
\* order.
RECURSIVE Reversed(_)
Reversed(v) ==
    IF v.t = "obj"
    THEN JObj([i \in 1..Len(v.c) |->
                 Member(v.c[Len(v.c) + 1 - i].k, Reversed(v.c[Len(v.c) + 1 - i].v))])
    ELSE IF v.t = "arr" THEN JArr([i \in 1..Len(v.c) |-> Reversed(v.c[i])])
    ELSE v

\* C15: search_context_path(doc, 'k1.k2...kn') returns doc[k1][k2]...[kn] when
\* every prefix of the path resolves through mappings and the absent sentinel
\* as soon as a segment is missing or the value reached is not a mapping
\* (sequences are never indexed); key insertion order does not matter.
C15_PathWalksMappingsOnly ==
    searchOut.op = "search_context_path" =>
        LET segs == Split(searchIn.path, 1, "")
            end == Reached(searchIn.doc, segs, Len(segs))
        IN  /\ searchOut.ret = IF end.ok THEN end.v ELSE PyNone
            /\ (\E j \in 0..(Len(segs) - 1) :
                   Reached(searchIn.doc, segs, j).ok
                   /\ ~IsMapping(Reached(searchIn.doc, segs, j).v))
               => searchOut.ret = PyNone
            /\ search_context_path(Reversed(searchIn.doc), searchIn.path)
                 = Reversed(searchOut.ret)

\* A path of two segments was followed through two mappings, the outer one
\* with two keys, to a value.
C15_Witness ==
    /\ searchOut.op = "search_context_path"
    /\ Len(Split(searchIn.path, 1, "")) = 2
    /\ Len(searchIn.doc.c) = 2
    /\ searchOut.ret = JNum(1)

\* C18: update_context on a mapping returns that mapping with every top-level
\* key of the patch set to the patch's value (nested mappings replaced whole)
\* and every other key unchanged; on a context that is not a mapping it
\* returns None and changes nothing.
C18_ShallowMerge ==
    (searchOut.op = "update_context" /\ searchOut.exc = "") =>
        IF IsMapping(searchIn.doc)
        THEN /\ searchOut.ret = searchOut.doc
             /\ IsMapping(searchOut.ret)
             /\ Keys(searchOut.ret) = Keys(searchIn.doc) \cup Keys(searchIn.data)
             /\ Len(searchOut.ret.c) = Cardinality(Keys(searchOut.ret))
             /\ \A k \in Keys(searchIn.data) :
                    Get(searchOut.ret, k) = Get(searchIn.data, k)
             /\ \A k \in Keys(searchIn.doc) \ Keys(searchIn.data) :
                    Get(searchOut.ret, k) = Get(searchIn.doc, k)
        ELSE /\ searchOut.ret = PyNone
             /\ searchOut.doc = searchIn.doc

\* A patch replaced a nested mapping of the context by another mapping while
\* the context kept a key the patch does not have.
C18_Witness ==
    /\ searchOut.op = "update_context" /\ searchOut.exc = ""
    /\ IsMapping(searchIn.doc) /\ IsMapping(searchIn.data)
    /\ Keys(searchIn.doc) \ Keys(searchIn.data) # {}
    /\ \E k \in Keys(searchIn.doc) \cap Keys(searchIn.data) :
          /\ IsMapping(Get(searchIn.doc, k)) /\ IsMapping(Get(searchIn.data, k))
          /\ Get(searchIn.doc, k) # Get(searchIn.data, k)
          /\ Get(searchOut.ret, k) = Get(searchIn.data, k)

(***************************************************************************)
(* Context Protocol (server/SoarBaseAPI.py)                                *)
(***************************************************************************)

\* The longest standard input, in tokens.
MaxStdinLen == 5

StdinTexts == UNION { [1..n -> JsonTokens] : n \in 0..MaxStdinLen }

\* Standard input is a terminal, a pipe holding `text`, or cannot be used
\* (closed, or its bytes cannot be decoded: isatty() or read() raises).
StdinStates ==
    { [mode |-> m, text |-> <<>>] : m \in {"tty", "unreadable"} }
    \cup [mode : {"pipe"}, text : StdinTexts]

\* load_context(): input_data stays None unless stdin is not a terminal and
\* json.load succeeds; both excepts of the inner try swallow the error.
load_context(in) ==
    IF in.mode = "unreadable" THEN [exc |-> "", val |-> PyNone]
    ELSE IF in.mode = "tty" THEN [exc |-> "", val |-> PyNone]
    ELSE LET r == json_load(in.text)
         IN  IF r.ok THEN [exc |-> "", val |-> r.v]
             ELSE [exc |-> "", val |-> PyNone]

NotLoaded == [exc |-> Idle, val |-> PyNone]

LoadIdle ==
    /\ stdin = [mode |-> "tty", text |-> <<>>]
    /\ loaded = NotLoaded

LoadInit ==
    /\ stdin \in StdinStates
    /\ loaded = NotLoaded

CallLoadContext ==
    /\ loaded = NotLoaded
    /\ loaded' = load_context(stdin)
    /\ UNCHANGED <<stdin, notLoadVars>>

LoadNext == CallLoadContext

\* The JSON objects whose text fits standard input.
PipedScalars == {JNum(1), JStr("k")}
PipedLeaves == PipedScalars \cup {EmptyObj, JArr(<<>>)}
PipedObjects == {EmptyObj} \cup { JObj(<<Member("k", v)>>) : v \in PipedLeaves }

\* C3: load_context never raises and returns a mapping for every state of
\* standard input: the piped document when a pipe holds the text of a JSON
\* object, and the empty mapping {} in every other case.
C3_LoadContextReturnsMapping ==
    loaded # NotLoaded =>
        /\ loaded.exc = ""
        /\ IsMapping(loaded.val)
        /\ \A d \in PipedObjects :
              (stdin.mode = "pipe" /\ stdin.text = json_dump(d)) => loaded.val = d
        /\ (~\E d \in PipedObjects : stdin.mode = "pipe" /\ stdin.text = json_dump(d))
              => loaded.val = EmptyObj

(***************************************************************************)
(* Capability Shim and Hot-Reload Supervisor (user/sitecustomize.py)       *)
(***************************************************************************)

\* The names the initial import block binds, in statement order.
InitialOrder ==
    <<"SoarBaseAPI", "search_context", "search_context_iterative",
      "search_context_path", "load_context", "return_context",
      "get_secauto_config", "get_integration_config", "reload_soar_api",
      "check_and_reload", "get_cache", "set_cache", "delete_cache">>

\* The names reload_soar_api rebinds, in statement order.
ReloadOrder ==
    <<"SoarBaseAPI", "search_context", "search_context_iterative",
      "search_context_path", "load_context", "base_context", "return_context",
      "get_secauto_config", "get_integration_config", "get_cache", "set_cache",
      "delete_cache">>

\* The names bound to the shim's own functions and values.
ShimNames == {"reload_soar_api", "check_and_reload"}
ContextNames == {"context", "secauto_url", "secauto_api_key"}

Range(seq) == { seq[i] : i \in 1..Len(seq) }
BuiltinNames == Range(InitialOrder) \cup Range(ReloadOrder) \cup ContextNames

\* The functions server/SoarBaseAPI.py defines, and those of a backing module
\* that also defines the three cache functions the shim binds.
RepoExports ==
    {"base_context", "load_context", "return_context", "update_context",
     "search_context_iterative", "search_context", "search_context_path",
     "get_secauto_config", "get_integration_config"}
FullExports == RepoExports \cup {"get_cache", "set_cache", "delete_cache"}

\* The bounds on the file's modification time and on the number of versions
\* written to it.
MaxMtime == 2
MaxVersion == 2

Unbound == -1
ShimOwned == 0
NoModule == -1
NotRecorded == -1

\* The file: missing, present but failing at import (a syntax error, an
\* exception in its body), or importable; its st_mtime; the version of its text;
\* the functions that text defines.
DiskStates ==
    [state : {"missing", "broken", "ok"}, mtime : 0..MaxMtime,
     version : 1..(MaxVersion + 1), exports : {RepoExports, FullExports}]

\* The attribute reads `SoarBaseAPI.<name>` that succeed on a module with
\* these exports; the shim's own functions are always there.
Available(n, exports) == n = "SoarBaseAPI" \/ n \in ShimNames \/ n \in exports

\* The assignments `builtins.<name> = ...` of `order`, executed one after the
\* other against module version `ver`, up to the first attribute that is
\* missing (AttributeError).
BindInOrder(b, order, exports, ver) ==
    LET missing == { i \in 1..Len(order) : ~Available(order[i], exports) }
        stop == IF missing = {} THEN Len(order) + 1
                ELSE CHOOSE i \in missing : \A j \in missing : i <= j
    IN  [complete |-> missing = {},
         b |-> [n \in BuiltinNames |->
                  IF \E i \in 1..(stop - 1) : order[i] = n
                  THEN (IF n \in ShimNames THEN ShimOwned ELSE ver)
                  ELSE b[n]]]

\* _ensure_context_loaded(): load_context(), with None and any exception
\* replaced by json.loads(base_context()).
ensure_context_loaded(in) ==
    LET r == load_context(in)
    IN  IF r.exc # "" THEN EmptyObj
        ELSE IF r.val = PyNone THEN EmptyObj
        ELSE r.val

\* A reload that also rebinds `context` to the freshly imported module.
reload_soar_api_rebinds_context(d, mods, b) ==
    IF d.state # "ok" THEN [ok |-> FALSE, sysModules |-> NoModule, builtins |-> b]
    ELSE LET r == BindInOrder(b, ReloadOrder, d.exports, d.version)
         IN  [ok |-> r.complete, sysModules |-> d.version,
              builtins |-> [r.b EXCEPT !["context"] = d.version]]

\* reload_soar_api(): drop the module from sys.modules, import it again and
\* rebind; every exception is caught and the function returns False.
reload_soar_api(d, mods, b) ==
    IF d.state # "ok" THEN [ok |-> FALSE, sysModules |-> NoModule, builtins |-> b]
    ELSE LET r == BindInOrder(b, ReloadOrder, d.exports, d.version)
         IN  [ok |-> r.complete, sysModules |-> d.version, builtins |-> r.b]

\* Standard input as the shim finds it.
StdinSamples ==
    { [mode |-> "tty", text |-> <<>>],
      [mode |-> "pipe", text |-> <<"{">>],
      [mode |-> "pipe", text |-> <<"{", "\"k\"", ":", "1", "}">>],
      [mode |-> "pipe", text |-> <<"[", "1", "]">>] }

NoContext == [bound |-> FALSE, val |-> PyNone]

ShimIdle ==
    /\ disk = [state |-> "ok", mtime |-> 1, version |-> 1, exports |-> RepoExports]
    /\ sysModules = NoModule
    /\ builtins = [n \in BuiltinNames |-> Unbound]
    /\ context = NoContext
    /\ contextLoads = 0
    /\ last_modified_time = NotRecorded
    /\ activated = FALSE
    /\ shimExc = ""
    /\ syncDisk = disk
    /\ checkReloads = 0

\* The interpreter starts with nothing bound; the file is the repository's
\* module or an edited one.
ShimInit ==
    /\ disk \in { d \in DiskStates : d.mtime = 1 /\ d.version = 1 }
    /\ sysModules = NoModule
    /\ builtins = [n \in BuiltinNames |-> Unbound]
    /\ context = NoContext
    /\ contextLoads = 0
    /\ last_modified_time = NotRecorded
    /\ activated = FALSE
    /\ shimExc = ""
    /\ syncDisk = disk
    /\ checkReloads = 0

\* The module body of sitecustomize.py: the initial import block. Only
\* ImportError is caught; a module that fails otherwise at import, and an
\* attribute the module lacks, end the body with the exception.
Activate ==
    /\ ~activated
    /\ activated' = TRUE
    /\ syncDisk' = disk
    /\ UNCHANGED <<disk, last_modified_time, checkReloads, notShimVars>>
    /\ IF disk.state = "missing"
       THEN UNCHANGED <<sysModules, builtins, context, contextLoads, shimExc>>
       ELSE IF disk.state = "broken"
       THEN /\ shimExc' = "SyntaxError"
            /\ UNCHANGED <<sysModules, builtins, context, contextLoads>>
       ELSE LET r == BindInOrder(builtins, InitialOrder, disk.exports, disk.version)
            IN  /\ sysModules' = disk.version
                /\ IF r.complete
                   THEN /\ builtins' = [n \in BuiltinNames |->
                                          IF n \in ContextNames THEN ShimOwned ELSE r.b[n]]
                        /\ context' = [bound |-> TRUE, val |-> ensure_context_loaded(stdin)]
                        /\ contextLoads' = contextLoads + 1
                        /\ shimExc' = ""
                   ELSE /\ builtins' = r.b
                        /\ shimExc' = "AttributeError"
                        /\ UNCHANGED <<context, contextLoads>>

\* The file is rewritten, replaced or deleted: any content, any other mtime.
ModifyFile ==
    /\ disk.version <= MaxVersion
    /\ \E d \in DiskStates :
        /\ d.version = disk.version + 1
        /\ d.mtime # disk.mtime
        /\ disk' = d
    /\ UNCHANGED <<sysModules, builtins, context, contextLoads, last_modified_time,
                   activated, shimExc, syncDisk, checkReloads, notShimVars>>

\* A check_and_reload() that records the timestamp only when the reload
\* succeeded.
CheckAndReloadRecordsOnSuccess ==
    /\ activated
    /\ syncDisk' = disk
    /\ UNCHANGED <<disk, context, contextLoads, activated, shimExc, notShimVars>>
    /\ IF disk.state = "missing"
       THEN UNCHANGED <<last_modified_time, sysModules, builtins, checkReloads>>
       ELSE IF last_modified_time = NotRecorded
       THEN /\ last_modified_time' = disk.mtime
            /\ UNCHANGED <<sysModules, builtins, checkReloads>>
       ELSE IF disk.mtime > last_modified_time
       THEN /\ last_modified_time' = IF reload_soar_api(disk, sysModules, builtins).ok
                                     THEN disk.mtime ELSE last_modified_time
            /\ checkReloads' = checkReloads + 1
            /\ sysModules' = reload_soar_api(disk, sysModules, builtins).sysModules
            /\ builtins' = reload_soar_api(disk, sysModules, builtins).builtins
       ELSE UNCHANGED <<last_modified_time, sysModules, builtins, checkReloads>>

\* check_and_reload()
CheckAndReload ==
    /\ activated
    /\ syncDisk' = disk
    /\ UNCHANGED <<disk, context, contextLoads, activated, shimExc, notShimVars>>
    /\ IF disk.state = "missing"
       THEN UNCHANGED <<last_modified_time, sysModules, builtins, checkReloads>>
       ELSE IF last_modified_time = NotRecorded
       THEN /\ last_modified_time' = disk.mtime
            /\ UNCHANGED <<sysModules, builtins, checkReloads>>
       ELSE IF disk.mtime > last_modified_time
       THEN /\ last_modified_time' = disk.mtime
            /\ checkReloads' = checkReloads + 1
            /\ sysModules' = reload_soar_api(disk, sysModules, builtins).sysModules
            /\ builtins' = reload_soar_api(disk, sysModules, builtins).builtins
       ELSE UNCHANGED <<last_modified_time, sysModules, builtins, checkReloads>>

\* reload_soar_api() called through its ambient binding.
CallReloadSoarApi ==
    /\ activated
    /\ builtins["reload_soar_api"] # Unbound
    /\ sysModules' = reload_soar_api(disk, sysModules, builtins).sysModules
    /\ builtins' = reload_soar_api(disk, sysModules, builtins).builtins
    /\ UNCHANGED <<disk, context, contextLoads, last_modified_time, activated, shimExc,
                   syncDisk, checkReloads, notShimVars>>

ShimNext == Activate \/ ModifyFile \/ CheckAndReload \/ CallReloadSoarApi

\* Every name of `order` is bound to module version `ver` (the shim's own
\* functions to themselves).
AllBoundTo(b, order, ver) ==
    \A n \in Range(order) : b[n] = IF n \in ShimNames THEN ShimOwned ELSE ver

\* C4: once the file's modification time has advanced since the initial
\* binding or since the previous check_and_reload() call, the next
\* check_and_reload() call (the first call of the process included) imports
\* the module anew and rebinds the capability functions to it; a call with no
\* file change since the previous one reloads nothing.
C4_NextCheckReloads ==
    [][CheckAndReload =>
        /\ ( /\ builtins["SoarBaseAPI"] # Unbound
             /\ syncDisk.state = "ok" /\ disk.state = "ok"
             /\ disk.exports = FullExports
             /\ disk.mtime > syncDisk.mtime )
           => ( /\ sysModules' = disk.version
                /\ AllBoundTo(builtins', ReloadOrder, disk.version) )
        /\ disk = syncDisk => UNCHANGED <<sysModules, builtins>>]_vars

\* C5: activation with an importable backing module leaves every name of the
\* initial import block bound to that module's function, and `context` bound
\* to a mapping computed exactly once.
C5_ActivationBindsEverything ==
    [][(Activate /\ disk.state = "ok") =>
        /\ AllBoundTo(builtins', InitialOrder, disk.version)
        /\ context'.bound /\ IsMapping(context'.val)
        /\ contextLoads' = 1]_vars

\* C6: activation and reload never let an exception leave the shim, and a
\* failed import or rebinding leaves the bindings as they were: after the
\* step either nothing has changed or every name of the step's binding list
\* points at the module now on disk.
C6_FailureLeavesBindingsIntact ==
    [][/\ Activate =>
            /\ shimExc' = ""
            /\ \/ builtins' = builtins
               \/ AllBoundTo(builtins', InitialOrder, disk.version)
       /\ (CheckAndReload \/ CallReloadSoarApi) =>
            /\ shimExc' = ""
            /\ \/ builtins' = builtins
               \/ AllBoundTo(builtins', ReloadOrder, disk.version)]_vars

\* C16: reload_soar_api and check_and_reload leave the ambient `context`
\* binding as it is: after any file modifications and reloads `context` is
\* still the value computed at first activation, computed once, while the
\* capability functions are rebound.
C16_ReloadKeepsContext ==
    [][(CheckAndReload \/ CallReloadSoarApi) =>
        /\ context' = context
        /\ contextLoads' = contextLoads
        /\ \A n \in ContextNames : builtins'[n] = builtins[n]
        /\ context'.bound => context'.val = ensure_context_loaded(stdin)]_vars

\* The context was bound at activation and the capability functions have
\* since been rebound to a later version of the module.
C16_Witness ==
    /\ context.bound /\ contextLoads = 1
    /\ builtins["context"] = ShimOwned
    /\ builtins["search_context"] > 1
    /\ context.val # EmptyObj

\* C20: across any interleaving of file modifications and check_and_reload
\* calls the recorded last_modified_time never decreases, the first call with
\* the file present only records the timestamp, and reload_soar_api is
\* attempted at most once per strict increase of the recorded timestamp: a
\* reload that fails is not attempted again until the file changes again.
C20_OneReloadPerIncrease ==
    [][/\ last_modified_time' >= last_modified_time
       /\ CheckAndReload =>
            /\ (last_modified_time = NotRecorded /\ disk.state # "missing")
                 => (last_modified_time' = disk.mtime /\ checkReloads' = checkReloads)
            /\ checkReloads' \in {checkReloads, checkReloads + 1}
            /\ checkReloads' > checkReloads
                 => (last_modified_time # NotRecorded
                     /\ last_modified_time' > last_modified_time)
            /\ disk = syncDisk => checkReloads' = checkReloads]_vars

\* check_and_reload attempted a reload of a file that cannot be imported, and
\* the timestamp of that file is the recorded one.
C20_Witness ==
    /\ checkReloads >= 1
    /\ disk.state = "broken" /\ syncDisk = disk
    /\ sysModules = NoModule
    /\ last_modified_time = disk.mtime

InitShim ==
    /\ ShimInit
    /\ files = [i \in 1..NumConfigPaths |-> NoFile] /\ CfgIdle
    /\ stdin \in StdinSamples
    /\ loaded = NotLoaded
    /\ AutoIdle
    /\ SearchIdle
    /\ RedisIdle
    /\ PluginIdle

SpecShim == InitShim /\ [][ShimNext]_vars

(***************************************************************************)
(* Automations (automations/*.py) and the integrations they call           *)
(***************************************************************************)

Automations ==
    {"baseit5", "data_enrichment", "qualysauto", "tenableauto", "virustotal_url_scanner"}

\* dict.get(k, default)
DictGet(d, k, default) == IF HasKey(d, k) THEN Get(d, k) ELSE default

\* bool(v)
PyTruthy(v) ==
    CASE v.t = "None" -> FALSE
      [] v.t = "num" -> v.n # 0
      [] v.t = "str" -> v.a # ""
      [] v.t = "bool" -> v.a = "true"
      [] OTHER -> Len(v.c) > 0

\* str(v) of a scalar
PyStr(v) == IF v.t = "num" THEN JStr(ToString(v.n)) ELSE JStr(v.a)

\* The characters of the strings that occur as URL items; the JSON string
\* literal "k" counts as one character.
Chars(str) ==
    CASE str = "" -> <<>>
      [] str = " " -> <<" ">>
      [] str = "u" -> <<"u">>
      [] str = "k" -> <<"k">>
      [] str = "{{u}}" -> <<"{", "{", "u", "}", "}">>
      [] str = "[u]" -> <<"[", "u", "]">>
      [] str = "[]" -> <<"[", "]">>
      [] str = "[\"k\",\"k\"]" -> <<"[", "\"k\"", ",", "\"k\"", "]">>

NotSpace(ch) == ch # " "
\* str.strip() is non-empty
StripTruthy(str) == \E i \in 1..Len(Chars(str)) : Chars(str)[i] # " "
\* str.startswith(two characters) and str.endswith(two characters)
StartsWith2(str, ch) ==
    Len(Chars(str)) >= 2 /\ Chars(str)[1] = ch /\ Chars(str)[2] = ch
EndsWith2(str, ch) ==
    LET cs == Chars(str)
    IN  Len(cs) >= 2 /\ cs[Len(cs)] = ch /\ cs[Len(cs) - 1] = ch
StartsWith1(str, ch) == Len(Chars(str)) >= 1 /\ Chars(str)[1] = ch
EndsWith1(str, ch) == Len(Chars(str)) >= 1 /\ Chars(str)[Len(Chars(str))] = ch

\* json.loads(str): whitespace between tokens is skipped.
json_loads(str) == json_load(SelectSeq(Chars(str), NotSpace))

IsUrlString(item) == item.t = "str" /\ StripTruthy(item.a)

\* The filtering loop of virustotal_url_scanner.main over urls[i..]: unresolved
\* templates and non-strings are invalid, a string that parses as a JSON
\* array contributes its non-blank string items, every other non-blank string
\* is valid as it is.
RECURSIVE FilterUrls(_, _, _, _)
FilterUrls(urls, i, valid, invalid) ==
    IF i > Len(urls) THEN [valid |-> valid, invalid |-> invalid]
    ELSE LET url == urls[i]
         IN  IF url.t = "str" /\ StartsWith2(url.a, "{") /\ EndsWith2(url.a, "}")
             THEN FilterUrls(urls, i + 1, valid, Append(invalid, url))
             ELSE IF url.t = "str" /\ StripTruthy(url.a)
             THEN IF /\ StartsWith1(url.a, "[") /\ EndsWith1(url.a, "]")
                     /\ json_loads(url.a).ok /\ json_loads(url.a).v.t = "arr"
                  THEN FilterUrls(urls, i + 1,
                                  valid \o SelectSeq(json_loads(url.a).v.c, IsUrlString),
                                  invalid)
                  ELSE FilterUrls(urls, i + 1, Append(valid, url), invalid)
             ELSE FilterUrls(urls, i + 1, valid, Append(invalid, PyStr(url)))

\* What VirusTotal answers to the submission of one URL and to the request
\* for its report.
ScanEnvs ==
    { [post |-> "failed", report |-> "none"] }
    \cup { [post |-> "ok", report |-> r] :
            r \in {"failed", "clean", "malicious", "nostats", "badstats"} }

\* attributes.get('stats', {}) of a report
ReportStats(r) ==
    CASE r = "clean" -> JObj(<<Member("malicious", JNum(0)), Member("harmless", JNum(3))>>)
      [] r = "malicious" -> JObj(<<Member("malicious", JNum(2)), Member("harmless", JNum(1))>>)
      [] r = "badstats" -> JArr(<<JNum(1)>>)
      [] OTHER -> EmptyObj

VtRequest(what, key) == Request("https://www.virustotal.com/api/v3", key, what)

\* VirusTotalIntegration.scan_url(url): the "virustotal" mapping it returns
\* (whether it has a stats key, and its value) and the requests it issues.
\* A failed report overwrites the success flag through dict.update.
scan_url(api_key, url, env) ==
    IF ~Truthy(api_key)
    THEN [success |-> FALSE, hasStats |-> FALSE, stats |-> EmptyObj, requests |-> <<>>]
    ELSE IF env.post # "ok"
    THEN [success |-> FALSE, hasStats |-> FALSE, stats |-> EmptyObj,
          requests |-> <<VtRequest("urls", api_key)>>]
    ELSE IF env.report = "failed"
    THEN [success |-> FALSE, hasStats |-> FALSE, stats |-> EmptyObj,
          requests |-> <<VtRequest("urls", api_key), VtRequest("analyses", api_key)>>]
    ELSE [success |-> TRUE, hasStats |-> TRUE, stats |-> ReportStats(env.report),
          requests |-> <<VtRequest("urls", api_key), VtRequest("analyses", api_key)>>]

ResultEntry(url, verdictKey, stats, success, message) ==
    JObj(<<Member("url", url), Member(verdictKey, stats), Member("success", JBool(success)),
           Member("error_message", JStr(message))>>)

\* The body of `for url in valid_urls`; acc holds results, the three counters
\* and the requests issued.
ScanStep(url, env, api_key, acc) ==
    LET r == scan_url(api_key, url, env)
        stats == IF r.hasStats THEN r.stats ELSE EmptyObj
        reqs == acc.requests \o r.requests
    IN  IF PyTruthy(stats) /\ ~IsMapping(stats)
        THEN \* stats.get raises AttributeError: the except branch
             [acc EXCEPT !.results = Append(@, ResultEntry(url, "verdict", EmptyObj, FALSE,
                                                           "exception")),
                         !.failed = @ + 1, !.requests = reqs]
        ELSE IF PyTruthy(stats)
        THEN LET m == DictGet(stats, "malicious", JNum(0)).n
             IN  [acc EXCEPT !.results = Append(@, ResultEntry(url, "verdicts", stats,
                                                               r.success, "")),
                             !.malicious = @ + m,
                             !.clean = IF m = 0 THEN @ + 1 ELSE @,
                             !.requests = reqs]
        ELSE [acc EXCEPT !.results = Append(@, ResultEntry(url, "verdicts", stats, r.success,
                                                          IF r.success THEN "" ELSE "error")),
                         !.failed = @ + 1, !.requests = reqs]

\* The loop that appends one failure entry per invalid URL.
RECURSIVE InvalidLoop(_, _, _)
InvalidLoop(invalid, i, acc) ==
    IF i > Len(invalid) THEN acc
    ELSE InvalidLoop(invalid, i + 1,
             [acc EXCEPT !.results = Append(@, ResultEntry(invalid[i], "verdicts", EmptyObj,
                                         FALSE, "Template variable not resolved")),
                         !.failed = @ + 1])

Summary(total, scanned, malicious, clean, failed) ==
    <<Member("total_urls", JNum(total)), Member("scanned_urls", JNum(scanned)),
      Member("malicious_urls", JNum(malicious)), Member("clean_urls", JNum(clean)),
      Member("failed_scans", JNum(failed))>>

\* The envelope of the two early branches of main.
FailureEnvelope(message, total, failed) ==
    JObj(<<Member("virustotal",
        JObj(<<Member("success", JBool(FALSE)), Member("error", JStr(message)),
               Member("results", JArr(<<>>)),
               Member("summary", JObj(Summary(total, 0, 0, 0, failed)))>>))>>)

\* The envelope main builds after the loops. success_rate is a float in the
\* code; the model keeps its floor.
FinalEnvelope(nurls, valid, invalid, acc) ==
    JObj(<<Member("virustotal",
        JObj(<<Member("success", JBool(acc.failed = 0 /\ Len(valid) > 0)),
               Member("results", JArr(acc.results)),
               Member("summary", JObj(
                   Summary(nurls, Len(valid) - acc.failed + Len(invalid), acc.malicious,
                           acc.clean, acc.failed)
                   \o <<Member("invalid_urls", JNum(Len(invalid))),
                        Member("success_rate",
                               JNum(IF Len(valid) > 0
                                    THEN ((Len(valid) - acc.failed) * 100) \div Len(valid)
                                    ELSE 0))>>)),
               Member("timestamp", JStr("now"))>>))>>)

\* VirusTotalIntegration(): _load_config swallows every exception of
\* get_integration_config and keeps api_key None unless a config came back.
VtApiKey(cfg) ==
    IF cfg.exc = "" /\ cfg.ret.state = "nonempty" THEN cfg.ret.apikey ELSE NoneV

\* What the config endpoint answers to an automation's integration lookup.
ConfigAnswers ==
    { NetFailure("timeout"),
      [net |-> "ok", status |-> 200, body |-> "nonobject", success |-> "absent",
       integration |-> AbsentPayload],
      [net |-> "ok", status |-> 200, body |-> "object", success |-> "true",
       integration |-> [state |-> "nonempty", apikey |-> "vtkey", host |-> NoneV]],
      [net |-> "ok", status |-> 200, body |-> "object", success |-> "true",
       integration |-> [state |-> "nonempty", apikey |-> NoneV, host |-> "cachehost"]] }

\* virustotal_url_scanner.main() up to the scan loop: neither early branch
\* returns, so the run goes on to filter the list and to construct the
\* integration, which fetches its config.
ScannerStart ==
    /\ ~done /\ automation = "virustotal_url_scanner" /\ ~scan.active
    /\ LET urls == DictGet(context.val, "urls", JArr(<<>>))
           first == IF ~PyTruthy(urls)
                    THEN <<FailureEnvelope("No URLs provided in context", 0, 0)>>
                    ELSE <<>>
       IN  IF ~IsMapping(context.val)
           THEN \* local_context.get raises AttributeError
                /\ exitExc' = "AttributeError"
                /\ done' = TRUE
                /\ UNCHANGED <<stdout, httpLog, scan>>
           ELSE IF urls.t # "arr"
           THEN \* `for url in urls` raises TypeError
                /\ stdout' = stdout \o first
                /\ exitExc' = "TypeError"
                /\ done' = TRUE
                /\ UNCHANGED <<httpLog, scan>>
           ELSE LET f == FilterUrls(urls.c, 1, <<>>, <<>>)
                    second == IF f.valid = <<>>
                              THEN <<FailureEnvelope("No valid URLs provided",
                                                     Len(urls.c), Len(urls.c))>>
                              ELSE <<>>
                IN  \E resp \in ConfigAnswers, legacy \in BOOLEAN :
                      LET cfg == get_integration_config(files, "virustotal", resp, legacy)
                      IN  /\ stdout' = stdout \o first \o second
                          /\ httpLog' = httpLog \o cfg.requests
                          /\ scan' = [NoScan EXCEPT !.active = TRUE, !.nurls = Len(urls.c),
                                                   !.valid = f.valid, !.invalid = f.invalid,
                                                   !.i = 1, !.api_key = VtApiKey(cfg)]
                          /\ UNCHANGED <<exitExc, done>>
    /\ UNCHANGED <<automation, cacheLog, files, secautoOut, cfgOut, context, notAutoVars>>

\* One iteration of `for url in valid_urls`.
ScanOneUrl ==
    /\ scan.active /\ scan.i <= Len(scan.valid)
    /\ \E env \in ScanEnvs :
        LET acc == ScanStep(scan.valid[scan.i], env, scan.api_key,
                            [scan.acc EXCEPT !.requests = <<>>])
        IN  /\ scan' = [scan EXCEPT !.i = @ + 1, !.acc = acc]
            /\ httpLog' = httpLog \o acc.requests
    /\ UNCHANGED <<automation, stdout, exitExc, done, cacheLog, files, secautoOut, cfgOut,
                   context, notAutoVars>>

\* main() after the scan loop: the invalid entries, the summary, the envelope.
ScannerFinish ==
    /\ scan.active /\ scan.i > Len(scan.valid)
    /\ LET acc == InvalidLoop(scan.invalid, 1, scan.acc)
       IN  stdout' = Append(stdout, FinalEnvelope(scan.nurls, scan.valid, scan.invalid, acc))
    /\ scan' = [scan EXCEPT !.active = FALSE]
    /\ done' = TRUE
    /\ UNCHANGED <<automation, exitExc, httpLog, cacheLog, files, secautoOut, cfgOut,
                   context, notAutoVars>>

\* baseit5.run_base5(): one fixed document.
RunBaseit5 ==
    /\ ~done /\ automation = "baseit5"
    /\ stdout' = Append(stdout,
         JObj(<<Member("baseit5",
             JObj(<<Member("status", JStr("Condition_met")),
                    Member("incident",
                        JObj(<<Member("severity", JStr("high")),
                               Member("assigned_to", JStr("security_team")),
                               Member("last_updated", JStr("2024-01-01T12:00:00Z"))>>))>>))>>))
    /\ done' = TRUE
    /\ UNCHANGED <<automation, exitExc, scan, cacheLog, cfgVars, context, notAutoVars>>

\* What enrich_incident_data returns in data_enrichment.run_data_enrichment.
EnrichedDocument ==
    JObj(<<Member("threat_intelligence",
              JObj(<<Member("ip_addresses", JArr(<<JStr("192.168.1.100"), JStr("10.0.0.50")>>)),
                     Member("domains",
                            JArr(<<JStr("malicious.example.com"), JStr("suspicious.net")>>)),
                     Member("file_hashes", JArr(<<JStr("abc123def456"), JStr("xyz789uvw012")>>)),
                     Member("threat_score", JNum(85)),
                     Member("reputation", JStr("malicious")),
                     Member("first_seen", JStr("2024-01-01T00:00:00Z")),
                     Member("last_seen", JStr("now"))>>)),
           Member("asset_information",
              JObj(<<Member("hostname", JStr("workstation-001")),
                     Member("ip_address", JStr("192.168.1.100")),
                     Member("os", JStr("Windows 10")),
                     Member("department", JStr("Engineering")),
                     Member("owner", JStr("john.doe@company.com")),
                     Member("location", JStr("Building A, Floor 2"))>>)),
           Member("user_context",
              JObj(<<Member("username", JStr("john.doe")),
                     Member("role", JStr("Software Engineer")),
                     Member("department", JStr("Engineering")),
                     Member("access_level", JStr("standard")),
                     Member("last_login", JStr("2024-01-01T08:00:00Z")),
                     Member("login_count", JNum(15))>>)),
           Member("processed_by", JStr("data_enrichment")),
           Member("enrichment_timestamp", JStr("now")),
           Member("incident_updates",
              JObj(<<Member("threat_score", JNum(85)),
                     Member("reputation", JStr("malicious")),
                     Member("affected_asset", JStr("workstation-001")),
                     Member("affected_user", JStr("john.doe")),
                     Member("indicators_count", JNum(2 + 2)),
                     Member("enriched_at", JStr("now"))>>))>>)

\* data_enrichment.run_data_enrichment(): the enriched document goes to
\* return_context as it is.
RunDataEnrichment ==
    /\ ~done /\ automation = "data_enrichment"
    /\ stdout' = Append(stdout, EnrichedDocument)
    /\ done' = TRUE
    /\ UNCHANGED <<automation, exitExc, scan, cacheLog, cfgVars, context, notAutoVars>>

\* RedisIntegration(): _load_config takes the host of a config that came
\* back, falls back to localhost when the resolver raises, and leaves the
\* host None when the resolver returns nothing.
RedisHost(cfg) ==
    IF cfg.exc # "" THEN "localhost"
    ELSE IF cfg.ret.state = "nonempty"
    THEN IF cfg.ret.host # NoneV THEN cfg.ret.host ELSE "localhost"
    ELSE NoneV

\* What a cache call finds: the redis package missing, no server answering,
\* or a server.
CacheEnvs == {"no_module", "unreachable", "ok"}

\* RedisIntegration.set_cache(key, value): the client is built for localhost
\* whatever host was resolved, and every exception is caught.
set_cache(host, key, value, env) ==
    IF env = "ok" THEN <<[host |-> "localhost", key |-> key, value |-> value]>> ELSE <<>>

\* The text an f-string gives a scalar.
Format(v) ==
    CASE v.t = "None" -> "None"
      [] v.t = "num" -> ToString(v.n)
      [] OTHER -> v.a

\* The two envelopes of qualysauto.main and tenableauto.main.
NoUsersEnvelope ==
    JObj(<<Member("usercontext",
        JObj(<<Member("success", JBool(FALSE)), Member("error", JStr("No Usersseen")),
               Member("results", JArr(<<>>)),
               Member("summary", JObj(<<Member("active_users", JNum(0)),
                                        Member("inactive_users", JNum(0))>>))>>))>>)

UserCounts(active, inactive) ==
    JObj(<<Member("active_users", JNum(active)), Member("inactive_users", JNum(inactive))>>)

UsersEnvelope(active, inactive) ==
    JObj(<<Member("usercontext",
        JObj(<<Member("success", JBool(TRUE)),
               Member("summary", UserCounts(active, inactive))>>))>>)

\* qualysauto: i.get('USER_LOGIN').get('#text') and i.get('USER_STATUS').get('#text')
\* go through for an entry.
QualysEntryReadable(i) ==
    /\ IsMapping(i)
    /\ IsMapping(DictGet(i, "USER_LOGIN", PyNone))
    /\ IsMapping(DictGet(i, "USER_STATUS", PyNone))

\* user.get('status') == 'Active' on the entry built from i
QualysActive(i) == DictGet(DictGet(i, "USER_STATUS", PyNone), "#text", PyNone) = JStr("Active")

\* The entries `for user in usernames` counts as active.
QualysActiveCount(list) == Cardinality({ k \in 1..Len(list) : QualysActive(list[k]) })

\* The script stops with an exception before it wrote anything.
Crash(exc, requests) ==
    /\ exitExc' = exc
    /\ done' = TRUE
    /\ httpLog' = httpLog \o requests
    /\ UNCHANGED <<stdout, cacheLog>>

\* qualysauto.main(): the chained lookups and the entry loop come before the
\* integration is constructed; `for i in userlist` needs an iterable.
RunQualys ==
    /\ ~done /\ automation = "qualysauto"
    /\ LET ctx == context.val
           ulo == DictGet(ctx, "USER_LIST_OUTPUT", PyNone)
           ul == DictGet(ulo, "USER_LIST", PyNone)
           userlist == DictGet(ul, "USER", PyNone)
       IN  IF ~IsMapping(ctx) \/ ~IsMapping(ulo) \/ ~IsMapping(ul)
           THEN Crash("AttributeError", <<>>)
           ELSE IF userlist.t # "arr"
           THEN Crash("TypeError", <<>>)
           ELSE IF \E k \in 1..Len(userlist.c) : ~QualysEntryReadable(userlist.c[k])
           THEN Crash("AttributeError", <<>>)
           ELSE \E resp \in ConfigAnswers, legacy \in BOOLEAN, env \in CacheEnvs :
                  LET cfg == get_integration_config(files, "redis", resp, legacy)
                      active == QualysActiveCount(userlist.c)
                      inactive == Len(userlist.c) - active
                  IN  /\ httpLog' = httpLog \o cfg.requests
                      /\ IF userlist.c = <<>>
                         THEN /\ stdout' = Append(stdout, NoUsersEnvelope)
                              /\ UNCHANGED cacheLog
                         ELSE /\ cacheLog' = cacheLog \o
                                    set_cache(RedisHost(cfg),
                                              "qualys_user_count_"
                                                  \o Format(DictGet(ctx, "clientname", PyNone)),
                                              json_dump(UserCounts(active, inactive)), env)
                              /\ stdout' = Append(stdout, UsersEnvelope(active, inactive))
                      /\ done' = TRUE
                      /\ UNCHANGED exitExc
    /\ UNCHANGED <<automation, scan, files, secautoOut, cfgOut, context, notAutoVars>>

\* tenableauto: user.get('enabled') == True; 1 == True in Python.
TenableActive(user) ==
    DictGet(user, "enabled", PyNone) \in {JBool(TRUE), JNum(1)}

TenableActiveCount(list) == Cardinality({ k \in 1..Len(list) : TenableActive(list[k]) })

\* tenableauto.main(): the integration is constructed first, then `users` is
\* read; a truthy `users` is iterated and every item must have .get.
RunTenable ==
    /\ ~done /\ automation = "tenableauto"
    /\ IF ~IsMapping(context.val)
       THEN Crash("AttributeError", <<>>)
       ELSE \E resp \in ConfigAnswers, legacy \in BOOLEAN, env \in CacheEnvs :
              LET cfg == get_integration_config(files, "redis", resp, legacy)
                  users == DictGet(context.val, "users", PyNone)
                  active == TenableActiveCount(users.c)
                  inactive == Len(users.c) - active
              IN  IF ~PyTruthy(users)
                  THEN /\ stdout' = Append(stdout, NoUsersEnvelope)
                       /\ httpLog' = httpLog \o cfg.requests
                       /\ done' = TRUE
                       /\ UNCHANGED <<exitExc, cacheLog>>
                  ELSE IF users.t \in {"num", "bool"}
                  THEN Crash("TypeError", cfg.requests)
                  ELSE IF users.t # "arr" \/ \E k \in 1..Len(users.c) : ~IsMapping(users.c[k])
                  THEN Crash("AttributeError", cfg.requests)
                  ELSE /\ cacheLog' = cacheLog \o
                             set_cache(RedisHost(cfg),
                                       "tenable_user_count_"
                                           \o Format(DictGet(context.val, "clientname", PyNone)),
                                       json_dump(UserCounts(active, inactive)), env)
                       /\ stdout' = Append(stdout, UsersEnvelope(active, inactive))
                       /\ httpLog' = httpLog \o cfg.requests
                       /\ done' = TRUE
                       /\ UNCHANGED exitExc
    /\ UNCHANGED <<automation, scan, files, secautoOut, cfgOut, context, notAutoVars>>

\* The longest `urls` list.
MaxUrls == 2

UrlItems ==
    { JStr("u"), JStr("{{u}}"), JStr(" "), JStr("[u]"), JStr("[]"),
      JStr("[\"k\",\"k\"]"), JNum(5) }

UrlLists == UNION { [1..n -> UrlItems] : n \in 0..MaxUrls }

\* A context that is not a mapping: standard input held a JSON array.
ArrayContext == JArr(<<JNum(1)>>)

ScannerContexts ==
    {EmptyObj, ArrayContext, JObj(<<Member("urls", JNum(5))>>)}
    \cup { JObj(<<Member("urls", JArr(l))>>) : l \in UrlLists }

\* The longest user list.
MaxUsers == 2

Text(str) == JObj(<<Member("#text", JStr(str))>>)
QualysUser(status) ==
    JObj(<<Member("USER_LOGIN", Text("alice")), Member("USER_STATUS", Text(status))>>)
QualysUsers == {QualysUser("Active"), QualysUser("Inactive"), EmptyObj}

UserListOutput(members) ==
    JObj(<<Member("USER_LIST_OUTPUT", JObj(<<Member("USER_LIST", JObj(members))>>))>>)

QualysContexts ==
    {EmptyObj, ArrayContext, JObj(<<Member("USER_LIST_OUTPUT", EmptyObj)>>), UserListOutput(<<>>)}
    \cup { UserListOutput(<<Member("USER", JArr(l))>>) :
            l \in UNION { [1..n -> QualysUsers] : n \in 0..MaxUsers } }

TenableUsers ==
    { JObj(<<Member("enabled", JBool(TRUE))>>), JObj(<<Member("enabled", JBool(FALSE))>>),
      EmptyObj, JStr("alice") }

TenableContexts ==
    {EmptyObj, ArrayContext, JObj(<<Member("users", JNum(5))>>)}
    \cup { JObj(<<Member("users", JArr(l))>>) :
            l \in UNION { [1..n -> TenableUsers] : n \in 0..MaxUsers } }

ContextsOf(a) ==
    CASE a = "virustotal_url_scanner" -> ScannerContexts
      [] a = "qualysauto" -> QualysContexts
      [] a = "tenableauto" -> TenableContexts
      [] OTHER -> {EmptyObj}

AutoNext ==
    \/ ScannerStart \/ ScanOneUrl \/ ScannerFinish
    \/ RunBaseit5 \/ RunDataEnrichment \/ RunQualys \/ RunTenable

\* The shim has bound `context`; the candidate config files are all missing
\* or the first one holds an address and a credential.
InitAutomations ==
    /\ automation \in Automations
    /\ stdout = <<>>
    /\ exitExc = ""
    /\ done = FALSE
    /\ scan = NoScan
    /\ cacheLog = <<>>
    /\ SearchIdle
    /\ RedisIdle
    /\ PluginIdle
    /\ context \in { [bound |-> TRUE, val |-> c] : c \in ContextsOf(automation) }
    /\ files \in { [i \in 1..NumConfigPaths |-> NoFile],
                   [i \in 1..NumConfigPaths |->
                       IF i = 1 THEN ObjectFile("uA", "kA") ELSE NoFile] }
    /\ CfgIdle
    /\ LoadIdle
    /\ disk = [state |-> "ok", mtime |-> 1, version |-> 1, exports |-> FullExports]
    /\ sysModules = 1
    /\ builtins = [n \in BuiltinNames |->
                     IF n = "base_context" THEN Unbound
                     ELSE IF n \in ShimNames \cup ContextNames THEN ShimOwned ELSE 1]
    /\ contextLoads = 1
    /\ last_modified_time = NotRecorded
    /\ activated = TRUE
    /\ shimExc = ""
    /\ syncDisk = disk
    /\ checkReloads = 0

\* A Result Envelope: a mapping with exactly one top-level key whose value is
\* a mapping with a boolean `success`.
IsResultEnvelope(d) ==
    /\ IsMapping(d)
    /\ Len(d.c) = 1
    /\ IsMapping(d.c[1].v)
    /\ HasKey(d.c[1].v, "success")
    /\ Get(d.c[1].v, "success").t = "bool"

\* C1: in any run of the URL scanner, whatever context['urls'] is, return_context
\* is called at most once, so standard output holds at most one document.
C1_ScannerWritesAtMostOnce ==
    automation = "virustotal_url_scanner" => Len(stdout) <= 1

\* C2: when the URL scanner is given an empty `urls` list, it emits an
\* envelope with success false, summary.total_urls 0 and an error string, and
\* the run attempts no network call: no integration-config fetch, no scan
\* request.
C2_EmptyUrlsNoNetwork ==
    ( /\ automation = "virustotal_url_scanner" /\ done
      /\ IsMapping(context.val)
      /\ DictGet(context.val, "urls", PyNone) = JArr(<<>>) )
    => /\ \E k \in 1..Len(stdout) :
            LET e == DictGet(stdout[k], "virustotal", EmptyObj)
            IN  /\ DictGet(e, "success", PyNone) = JBool(FALSE)
                /\ DictGet(DictGet(e, "summary", EmptyObj), "total_urls", PyNone) = JNum(0)
                /\ DictGet(e, "error", JStr("")).a # ""
       /\ httpLog = <<>>

\* C10: every document an automation passes to return_context is a Result
\* Envelope, for all five automations on every execution path.
C10_EveryDocumentIsEnvelope ==
    \A k \in 1..Len(stdout) : IsResultEnvelope(stdout[k])

\* A context that is a mapping but lacks a key the automation reads.
LacksReadKeys(a, ctx) ==
    /\ IsMapping(ctx)
    /\ CASE a = "qualysauto" ->
              LET ulo == DictGet(ctx, "USER_LIST_OUTPUT", PyNone)
                  ul == DictGet(ulo, "USER_LIST", PyNone)
              IN  ~HasKey(ctx, "USER_LIST_OUTPUT") \/ ~HasKey(ulo, "USER_LIST")
                  \/ ~HasKey(ul, "USER")
         [] a = "tenableauto" -> ~HasKey(ctx, "users")
         [] OTHER -> FALSE

\* C11: given the context {} or any context missing the keys it reads,
\* qualysauto.main and tenableauto.main each finish without raising and emit
\* exactly one failure-shaped envelope (success false with an error string).
C11_IncompleteContextNeverAborts ==
    (done /\ automation \in {"qualysauto", "tenableauto"}
          /\ LacksReadKeys(automation, context.val))
    => /\ exitExc = ""
       /\ Len(stdout) = 1
       /\ IsResultEnvelope(stdout[1])
       /\ Get(stdout[1].c[1].v, "success") = JBool(FALSE)
       /\ DictGet(stdout[1].c[1].v, "error", JStr("")).a # ""

\* C12: for a batch of N input URLs of which at least one is valid, the
\* scanner's final envelope holds exactly N entries in `results`, one per input
\* item, whatever scans fail and whatever items are invalid.
C12_OneResultPerInputItem ==
    ( /\ automation = "virustotal_url_scanner" /\ done /\ exitExc = ""
      /\ scan.valid # <<>> )
    => Len(Get(stdout[Len(stdout)].c[1].v, "results").c)
         = Len(Get(context.val, "urls").c)

\* The URL scanner ran to the end of main: the last document on standard
\* output is the final envelope.
ScannerFinished ==
    automation = "virustotal_url_scanner" /\ done /\ exitExc = "" /\ scan.i >= 1

FinalVirustotal == Get(stdout[Len(stdout)], "virustotal")

FinalSummary(k) == Get(Get(FinalVirustotal, "summary"), k).n

\* C21: in the URL scanner's final envelope, top-level success is true only
\* if every entry of `results` has success true, summary.failed_scans is 0 and
\* there is no invalid-URL entry; conversely, every entry having success true
\* implies that top-level success is true.
C21_SuccessIffEveryEntrySucceeded ==
    ScannerFinished =>
        LET results == Get(FinalVirustotal, "results").c
            top == Get(FinalVirustotal, "success") = JBool(TRUE)
            allOk == \A k \in 1..Len(results) : Get(results[k], "success") = JBool(TRUE)
        IN  /\ top => /\ allOk
                      /\ FinalSummary("failed_scans") = 0
                      /\ FinalSummary("invalid_urls") = 0
                      /\ scan.invalid = <<>>
            /\ allOk => top

\* C22: in the URL scanner's final summary the counters are consistent for
\* every input list and every pattern of scan outcomes: success_rate lies in
\* 0..100, scanned_urls is not negative, clean_urls + failed_scans is at most
\* the number of result entries, and malicious_urls is at most total_urls.
C22_SummaryCountersConsistent ==
    ScannerFinished =>
        /\ FinalSummary("success_rate") >= 0
        /\ FinalSummary("success_rate") <= 100
        /\ FinalSummary("scanned_urls") >= 0
        /\ FinalSummary("clean_urls") + FinalSummary("failed_scans")
             <= Len(Get(FinalVirustotal, "results").c)
        /\ FinalSummary("malicious_urls") <= FinalSummary("total_urls")

(***************************************************************************)
(* Cache integration (integrations/redis_integration.py)                   *)
(***************************************************************************)

\* RedisIntegration(): __init__ sets the three attributes to None and calls
\* _load_config. A config that came back fills them (port and password from
\* their defaults, the sampled payloads hold neither); NameError (no ambient
\* get_integration_config) and any other exception give the local default; a
\* resolver that returns nothing leaves them None.
NewRedisIntegration ==
    /\ ~redisInst.constructed
    /\ IF builtins["get_integration_config"] = Unbound
       THEN /\ redisInst' = [constructed |-> TRUE, resolved |-> "unbound",
                             redis_host |-> "localhost", redis_port |-> "6379",
                             redis_password |-> ""]
            /\ UNCHANGED httpLog
       ELSE \E resp \in ConfigAnswers, legacy \in BOOLEAN :
              LET cfg == get_integration_config(files, "redis", resp, legacy)
                  set == cfg.exc # "" \/ cfg.ret.state = "nonempty"
              IN  /\ redisInst' =
                        [constructed |-> TRUE,
                         resolved |-> IF cfg.exc # "" THEN "raised"
                                      ELSE IF cfg.ret.state = "nonempty" THEN "config"
                                      ELSE "absent",
                         redis_host |-> RedisHost(cfg),
                         redis_port |-> IF set THEN "6379" ELSE NoneV,
                         redis_password |-> IF set THEN "" ELSE NoneV]
                  /\ httpLog' = httpLog \o cfg.requests
    /\ UNCHANGED <<redisLib, redisStore, redisOut, notRedisVars>>

CacheFailure(op, key, message) ==
    [op |-> op, key |-> key, arg |-> NoneV, success |-> FALSE, value |-> NoneV,
     error |-> message, host |-> NoneV]

\* RedisIntegration.get_cache(key): a value that is None or empty counts as
\* not found.
GetCache ==
    /\ redisInst.constructed
    /\ \E key \in CacheKeys, env \in {"unreachable", "ok"} :
        redisOut' =
          IF ~Truthy(redisInst.redis_host)
          THEN CacheFailure("get_cache", key, "Redis host not configured")
          ELSE IF ~redisLib
          THEN CacheFailure("get_cache", key, "Redis module not available")
          ELSE IF env # "ok"
          THEN [CacheFailure("get_cache", key, "Unexpected error")
                  EXCEPT !.host = redisInst.redis_host]
          ELSE IF Truthy(redisStore[redisInst.redis_host][key])
          THEN [op |-> "get_cache", key |-> key, arg |-> NoneV, success |-> TRUE,
                value |-> redisStore[redisInst.redis_host][key], error |-> "",
                host |-> redisInst.redis_host]
          ELSE [CacheFailure("get_cache", key, "Key not found in Redis")
                  EXCEPT !.host = redisInst.redis_host]
    /\ UNCHANGED <<redisInst, redisLib, redisStore, httpLog, notRedisVars>>

\* RedisIntegration.set_cache(key, value)
SetCache ==
    /\ redisInst.constructed
    /\ \E key \in CacheKeys, value \in CacheValues, env \in {"unreachable", "ok"} :
        LET writes == set_cache(redisInst.redis_host, key, value,
                                IF redisLib THEN env ELSE "no_module")
        IN  IF writes = <<>>
            THEN /\ redisOut' = [CacheFailure("set_cache", key, "Unexpected error")
                                   EXCEPT !.arg = value]
                 /\ UNCHANGED redisStore
            ELSE /\ redisOut' = [op |-> "set_cache", key |-> key, arg |-> value,
                                 success |-> TRUE, value |-> NoneV, error |-> "",
                                 host |-> writes[1].host]
                 /\ redisStore' = [redisStore EXCEPT ![writes[1].host][key] = value]
    /\ UNCHANGED <<redisInst, redisLib, httpLog, notRedisVars>>

\* RedisIntegration.delete_cache(key)
DeleteCache ==
    /\ redisInst.constructed
    /\ \E key \in CacheKeys, env \in {"unreachable", "ok"} :
        IF ~Truthy(redisInst.redis_host)
        THEN /\ redisOut' = CacheFailure("delete_cache", key, "Redis host not configured")
             /\ UNCHANGED redisStore
        ELSE IF ~redisLib
        THEN /\ redisOut' = CacheFailure("delete_cache", key, "Redis module not available")
             /\ UNCHANGED redisStore
        ELSE IF env # "ok"
        THEN /\ redisOut' = [CacheFailure("delete_cache", key, "Unexpected error")
                               EXCEPT !.host = redisInst.redis_host]
             /\ UNCHANGED redisStore
        ELSE /\ redisOut' = [op |-> "delete_cache", key |-> key, arg |-> NoneV,
                             success |-> TRUE, value |-> NoneV, error |-> "",
                             host |-> redisInst.redis_host]
             /\ redisStore' = [redisStore EXCEPT ![redisInst.redis_host][key] = NoneV]
    /\ UNCHANGED <<redisInst, redisLib, httpLog, notRedisVars>>

RedisNext == NewRedisIntegration \/ GetCache \/ SetCache \/ DeleteCache

\* C17: the cache integration uses the host, port and password resolved for
\* "redis" and falls back to the local default (localhost:6379, empty
\* password) whenever resolution yields no config: get_cache and delete_cache
\* then work against the local default and do not report an unconfigured host.
C17_FallsBackToLocalDefault ==
    redisInst.constructed =>
        /\ redisInst.resolved # "config" =>
              /\ redisInst.redis_host = "localhost"
              /\ redisInst.redis_port = "6379"
              /\ redisInst.redis_password = ""
        /\ redisOut.op \in {"get_cache", "delete_cache"} =>
              redisOut.error # "Redis host not configured"

\* C23: on one RedisIntegration instance with a resolved configuration, a
\* successful set_cache(k, v) directly followed by get_cache(k) that reaches
\* its server returns success with value v, for every resolved host and every
\* string v, the empty string included: the calls address the same store.
C23_SetThenGetRoundTrip ==
    [][( /\ redisInst.resolved = "config"
         /\ redisOut.op = "set_cache" /\ redisOut.success
         /\ redisOut'.op = "get_cache" /\ redisOut'.key = redisOut.key
         /\ redisOut'.error # "Unexpected error" )
       => /\ redisOut'.success
          /\ redisOut'.value = redisOut.arg
          /\ redisOut'.host = redisOut.host]_vars

(***************************************************************************)
(* Plugin-style automations (plugins/python/*.py)                          *)
(***************************************************************************)

Plugins == {"example_plugin", "example_python_plugin"}

\* The longest parameters argument, in JSON tokens.
MaxParamLen == 3

ParamTexts ==
    UNION { [1..n -> JsonTokens] : n \in 0..MaxParamLen }
    \cup {<<"{", "\"k\"", ":", "1", "}">>}

\* sys.argv[1:]: nothing, a command, or a command and the parameters text.
Argvs ==
    {Argv(0, "", <<>>)}
    \cup { Argv(1, c, <<>>) : c \in {"info", "execute", "cleanup", "status"} }
    \cup { Argv(2, "execute", t) : t \in ParamTexts }

\* What a process has written to one channel: JSON documents and other lines.
JsonOut(doc) == [kind |-> "json", doc |-> doc]
TextOut(line) == [kind |-> "text", doc |-> JStr(line)]

Exited(plugin, argv, out, err, status) ==
    [plugin |-> plugin, argv |-> argv, stdout |-> out, stderr |-> err,
     exited |-> TRUE, status |-> status]

\* ExamplePlugin.get_info()
ExamplePluginInfo ==
    JObj(<<Member("name", JStr("example_plugin")), Member("version", JStr("1.0.0")),
           Member("description", JStr("Example plugin for SecAuto playbooks")),
           Member("author", JStr("SecAuto Team")), Member("type", JStr("automation")),
           Member("supported_operations",
                  JArr(<<JStr("process_incident"), JStr("enrich_data")>>))>>)

\* ExamplePlugin.execute(params): params.get needs a mapping and `**incident`,
\* `**user` need mappings; ok is whether it returned.
ExamplePluginExecute(params) ==
    LET incident == DictGet(params, "incident", EmptyObj)
        user == DictGet(params, "user", EmptyObj)
    IN  IF ~IsMapping(params) \/ ~IsMapping(incident) \/ ~IsMapping(user)
        THEN [ok |-> FALSE, doc |-> PyNone]
        ELSE [ok |-> TRUE,
              doc |-> JObj(<<Member("plugin_processed", JBool(TRUE)),
                             Member("processing_timestamp", JStr("now")),
                             Member("incident", JObj(DictUpdate(incident.c,
                                 <<Member("enriched_by_plugin", JBool(TRUE)),
                                   Member("plugin_confidence", JStr("0.85")),
                                   Member("additional_indicators",
                                          JArr(<<JStr("suspicious_activity_detected"),
                                                 JStr("threat_level_elevated")>>))>>, 1))),
                             Member("user", JObj(DictUpdate(user.c,
                                 <<Member("last_processed_by", JStr("example_plugin"))>>,
                                 1)))>>)]

\* example_plugin.main()
RunExamplePlugin ==
    /\ pluginProc = NoPlugin
    /\ \E argv \in Argvs :
        LET parsed == json_load(argv.params)
            result == ExamplePluginExecute(parsed.v)
            run(out, err, status) == Exited("example_plugin", argv, out, err, status)
        IN  pluginProc' =
              IF argv.argc < 1 THEN run(<<>>, <<TextOut("Usage")>>, 1)
              ELSE IF argv.command = "info" THEN run(<<JsonOut(ExamplePluginInfo)>>, <<>>, 0)
              ELSE IF argv.command = "execute"
              THEN IF argv.argc < 2
                   THEN run(<<>>, <<TextOut("Error: No parameters provided")>>, 1)
                   ELSE IF ~parsed.ok
                   THEN run(<<>>, <<TextOut("DEBUG_RAW_INPUT"),
                                    TextOut("Error: Invalid JSON parameters"),
                                    TextOut("Error: Raw input was")>>, 1)
                   ELSE IF ~result.ok
                   THEN run(<<>>, <<TextOut("DEBUG_RAW_INPUT"),
                                    TextOut("Example plugin executing"),
                                    TextOut("Error: Plugin execution failed"),
                                    TextOut("Error: Traceback")>>, 1)
                   ELSE run(<<JsonOut(result.doc)>>,
                            <<TextOut("DEBUG_RAW_INPUT"), TextOut("Example plugin executing")>>,
                            0)
              ELSE IF argv.command = "cleanup"
              THEN run(<<>>, <<TextOut("Example plugin cleanup completed"),
                               TextOut("Cleanup completed")>>, 0)
              ELSE run(<<>>, <<TextOut("Error: Unknown command"),
                               TextOut("Available commands")>>, 1)
    /\ UNCHANGED notPluginVars

\* ExamplePythonPlugin.get_info()
ExamplePythonPluginInfo ==
    JObj(<<Member("name", JStr("example_python_plugin")), Member("type", JStr("automation")),
           Member("version", JStr("1.0.0")),
           Member("description", JStr("Example Python plugin for SecAuto")),
           Member("author", JStr("SecAuto Team")), Member("status", JStr("loaded")),
           Member("loaded_at", JStr("now")), Member("config", EmptyObj)>>)

\* ExamplePythonPlugin.execute(params): any parsed value is echoed.
ExamplePythonPluginExecute(params) ==
    JObj(<<Member("message", JStr("Example Python plugin executed successfully")),
           Member("timestamp", JStr("now")), Member("parameters", params),
           Member("plugin_name", JStr("example_python_plugin")),
           Member("python_version", JStr("sys.version")), Member("config", EmptyObj)>>)

\* example_python_plugin.main(): the usage lines and the unknown-command line
\* are printed without file=sys.stderr.
RunExamplePythonPlugin ==
    /\ pluginProc = NoPlugin
    /\ \E argv \in Argvs :
        LET parsed == json_load(argv.params)
            run(out, err, status) == Exited("example_python_plugin", argv, out, err, status)
        IN  pluginProc' =
              IF argv.argc < 1 THEN run(<<TextOut("Usage")>>, <<>>, 1)
              ELSE IF argv.command = "info"
              THEN run(<<JsonOut(ExamplePythonPluginInfo)>>, <<>>, 0)
              ELSE IF argv.command = "execute"
              THEN IF argv.argc < 2 THEN run(<<TextOut("Usage")>>, <<>>, 1)
                   ELSE IF ~parsed.ok
                   THEN run(<<>>, <<TextOut("Invalid JSON parameters")>>, 1)
                   ELSE run(<<JsonOut(ExamplePythonPluginExecute(parsed.v))>>, <<>>, 0)
              ELSE IF argv.command = "cleanup" THEN run(<<>>, <<>>, 0)
              ELSE run(<<TextOut("Unknown command")>>, <<>>, 1)
    /\ UNCHANGED notPluginVars

PluginNext == RunExamplePlugin \/ RunExamplePythonPlugin

\* C19: for both plugins, `execute` with malformed JSON parameters, with no
\* parameters argument or with a failing execution, and any unknown command,
\* ends with a non-zero exit status, writes its error only to standard error
\* and writes nothing to standard output; `info` and a successful `execute`
\* write exactly one JSON document to standard output and exit with status 0.
C19_PluginErrorsOnSideChannel ==
    (pluginProc.exited /\ pluginProc.argv.argc >= 1) =>
        LET argv == pluginProc.argv
            known == argv.command \in {"info", "execute", "cleanup"}
            malformed == argv.command = "execute" /\ argv.argc = 2
                         /\ ~json_load(argv.params).ok
            missing == argv.command = "execute" /\ argv.argc < 2
        IN  /\ (~known \/ malformed \/ missing) => pluginProc.status # 0
            /\ pluginProc.status # 0 =>
                  (pluginProc.stdout = <<>> /\ pluginProc.stderr # <<>>)
            /\ argv.command = "info" => pluginProc.status = 0
            /\ (known /\ argv.command # "cleanup" /\ pluginProc.status = 0) =>
                  (Len(pluginProc.stdout) = 1 /\ pluginProc.stdout[1].kind = "json")

SpecAutomations == InitAutomations /\ [][AutoNext]_vars

InitLoad ==
    /\ LoadInit
    /\ files = [i \in 1..NumConfigPaths |-> NoFile] /\ CfgIdle
    /\ ShimIdle
    /\ AutoIdle
    /\ SearchIdle
    /\ RedisIdle
    /\ PluginIdle

SpecLoad == InitLoad /\ [][LoadNext]_vars

InitConfig ==
    /\ LoadIdle
    /\ ShimIdle
    /\ AutoIdle
    /\ SearchIdle
    /\ RedisIdle
    /\ PluginIdle
    /\ CfgInit

SpecConfig == InitConfig /\ [][CfgNext]_vars

InitSearch ==
    /\ SearchIdle
    /\ RedisIdle
    /\ PluginIdle
    /\ files = [i \in 1..NumConfigPaths |-> NoFile] /\ CfgIdle
    /\ LoadIdle
    /\ ShimIdle
    /\ AutoIdle

SpecSearch == InitSearch /\ [][SearchNext]_vars

\* The process runs under the shim (the resolver is bound) or without it; the
\* candidate config files are all missing or the first one holds an address
\* and a credential; the redis package is installed or not.
InitRedis ==
    /\ redisInst = NoInstance
    /\ redisLib \in BOOLEAN
    /\ redisStore \in [CacheHosts -> [CacheKeys -> CacheValues \cup {NoneV}]]
    /\ redisOut = NoCacheCall
    /\ files \in { [i \in 1..NumConfigPaths |-> NoFile],
                   [i \in 1..NumConfigPaths |->
                       IF i = 1 THEN ObjectFile("uA", "kA") ELSE NoFile] }
    /\ CfgIdle
    /\ LoadIdle
    /\ disk = [state |-> "ok", mtime |-> 1, version |-> 1, exports |-> FullExports]
    /\ sysModules \in {NoModule, 1}
    /\ builtins = IF sysModules = NoModule THEN [n \in BuiltinNames |-> Unbound]
                  ELSE [n \in BuiltinNames |->
                          IF n = "base_context" THEN Unbound
                          ELSE IF n \in ShimNames \cup ContextNames THEN ShimOwned ELSE 1]
    /\ context = IF sysModules = NoModule THEN NoContext
                 ELSE [bound |-> TRUE, val |-> EmptyObj]
    /\ contextLoads = IF sysModules = NoModule THEN 0 ELSE 1
    /\ last_modified_time = NotRecorded
    /\ activated = (sysModules # NoModule)
    /\ shimExc = ""
    /\ syncDisk = disk
    /\ checkReloads = 0
    /\ AutoIdle
    /\ SearchIdle
    /\ PluginIdle

SpecRedis == InitRedis /\ [][RedisNext]_vars

InitPlugins ==
    /\ PluginIdle
    /\ files = [i \in 1..NumConfigPaths |-> NoFile] /\ CfgIdle
    /\ LoadIdle
    /\ ShimIdle
    /\ AutoIdle
    /\ SearchIdle
    /\ RedisIdle

SpecPlugins == InitPlugins /\ [][PluginNext]_vars

====
